---- MODULE Spec2Model ----
(***************************************************************************)
(* A model of qtjsonschema's "$ref" resolver (src/qtjsonschema/tools.py)   *)
(* and of the entry point create_widget (src/qtjsonschema/widgets.py).     *)
(*                                                                         *)
(* Python strings are sequences of one-character strings, so that          *)
(* urisplit, uricompose, urijoin, str.split and str.replace are computed   *)
(* character by character.  Python's None is the value None below.  JSON   *)
(* values are tagged records [t, v].  A Python call either returns a value *)
(* or raises an exception: Return(v) / Raise(e).                           *)
(***************************************************************************)
EXTENDS Integers, Sequences, FiniteSets, TLC

(***************************************************************************)
(* Strings                                                                 *)
(***************************************************************************)
None == <<"<None>">>

Truthy(s) == s # None /\ s # <<>>

Min(S) == CHOOSE m \in S : \A n \in S : m <= n

Max(S) == CHOOSE m \in S : \A n \in S : m >= n

Range0(s) == {s[i] : i \in 1..Len(s)}

\* s[n:] of Python, n counted from 0
From(s, n) == SubSeq(s, n + 1, Len(s))

StartsWith(s, c) == Len(s) >= 1 /\ s[1] = c

\* the longest prefix of s holding no character of stops
UpTo(s, stops) ==
    LET hit == {i \in 1..Len(s) : s[i] \in stops}
    IN  IF hit = {} THEN s ELSE SubSeq(s, 1, Min(hit) - 1)

\* str.split(sep) for a one-character separator: never empty
RECURSIVE Split(_, _)
Split(s, sep) ==
    LET head == UpTo(s, {sep})
    IN  IF Len(head) = Len(s) THEN <<s>>
        ELSE <<head>> \o Split(From(s, Len(head) + 1), sep)

\* sep.join(parts)
RECURSIVE Join(_, _)
Join(parts, sep) ==
    IF parts = <<>> THEN <<>>
    ELSE IF Len(parts) = 1 THEN parts[1]
    ELSE parts[1] \o <<sep>> \o Join(Tail(parts), sep)

\* str.replace(a b, r) for a two-character pattern: leftmost, non-overlapping
RECURSIVE Replace(_, _, _, _)
Replace(s, a, b, r) ==
    IF Len(s) < 2 THEN s
    ELSE LET found == s[1] = a /\ s[2] = b
         IN  <<IF found THEN r ELSE s[1]>>
             \o Replace(From(s, IF found THEN 2 ELSE 1), a, b, r)

\* str.rpartition("/")
RPartition(s) ==
    LET hit == {i \in 1..Len(s) : s[i] = "/"}
    IN  IF hit = {} THEN <<<<>>, <<>>, s>>
        ELSE <<SubSeq(s, 1, Max(hit) - 1), <<"/">>, From(s, Max(hit))>>

(***************************************************************************)
(* Python calls                                                            *)
(***************************************************************************)
JNull == [t |-> "null", v |-> "null"]

Return(v) == [kind |-> "return", exc |-> "", val |-> v]

Raise(e) == [kind |-> "raise", exc |-> e, val |-> JNull]

\* issubclass(e, cls) over the built-in exceptions the resolver can raise
IsInstance(e, cls) ==
    \/ e = cls
    \/ cls = "Exception"
    \/ cls = "LookupError" /\ e \in {"KeyError", "IndexError"}
    \/ cls = "OSError" /\ e \in {"FileNotFoundError", "ConnectionError"}
    \/ cls = "ValueError" /\ e = "JSONDecodeError"

(***************************************************************************)
(* uritools: urisplit, uricompose, urijoin (RFC 3986)                      *)
(***************************************************************************)
Letter == {"a", "b", "c", "d", "e", "f", "h", "i", "j", "l", "o", "p", "r", "s", "t", "x", "y"}

Digit == {"0", "1"}

SchemeChar == Letter \cup Digit \cup {"+", ".", "-"}

SplitResult(scheme, authority, path, query, fragment) ==
    [scheme |-> scheme, authority |-> authority, path |-> path,
     query |-> query, fragment |-> fragment]

\* SplitResult.RE, group 5: (#fragment)? in what follows the query
SplitFragment(scheme, authority, path, query, rest) ==
    SplitResult(scheme, authority, path, query,
                IF StartsWith(rest, "#") THEN Tail(rest) ELSE None)

\* SplitResult.RE, group 4: (?query)? in what follows the path
SplitQuery(scheme, authority, path, rest) ==
    IF StartsWith(rest, "?")
    THEN SplitFragment(scheme, authority, path, UpTo(Tail(rest), {"#"}),
                       From(rest, 1 + Len(UpTo(Tail(rest), {"#"}))))
    ELSE SplitFragment(scheme, authority, path, None, rest)

\* SplitResult.RE, group 3: the path in what follows the authority
SplitPath(scheme, authority, rest) ==
    SplitQuery(scheme, authority, UpTo(rest, {"?", "#"}),
               From(rest, Len(UpTo(rest, {"?", "#"}))))

\* SplitResult.RE, group 2: (//authority)? in what follows the scheme
SplitAuthority(scheme, rest) ==
    IF Len(rest) >= 2 /\ rest[1] = "/" /\ rest[2] = "/"
    THEN SplitPath(scheme, UpTo(From(rest, 2), {"/", "?", "#"}),
                   From(rest, 2 + Len(UpTo(From(rest, 2), {"/", "?", "#"}))))
    ELSE SplitPath(scheme, None, rest)

\* SplitResult.RE, group 1: (scheme:)?, run being the leading scheme characters
SplitScheme(uri, run) ==
    IF /\ Len(run) >= 1
       /\ run[1] \in Letter
       /\ Len(uri) > Len(run)
       /\ uri[Len(run) + 1] = ":"
    THEN SplitAuthority(run, From(uri, Len(run) + 1))
    ELSE SplitAuthority(None, uri)

\* urisplit(uri): (scheme:)? (//authority)? path (?query)? (#fragment)?
urisplit(uri) == SplitScheme(uri, UpTo(uri, {c \in Range0(uri) : c \notin SchemeChar}))

\* SplitResult.geturi: RFC 3986 5.3 component recomposition
geturi(r) ==
    (IF r.scheme # None THEN r.scheme \o <<":">> ELSE <<>>)
    \o (IF r.authority # None THEN <<"/", "/">> \o r.authority ELSE <<>>)
    \o r.path
    \o (IF r.query # None THEN <<"?">> \o r.query ELSE <<>>)
    \o (IF r.fragment # None THEN <<"#">> \o r.fragment ELSE <<>>)

\* uricompose(scheme, authority, path): the checks of RFC 3986 3.3 and 4.2, then
\* the recomposition.  Over the characters of this model the percent-encoding
\* of the path and the lower-casing of scheme and host change nothing.
uricompose(scheme, authority, path) ==
    IF authority # None /\ path # <<>> /\ ~StartsWith(path, "/")
    THEN Raise("ValueError")
    ELSE IF authority = None /\ Len(path) >= 2 /\ path[1] = "/" /\ path[2] = "/"
    THEN Raise("ValueError")
    ELSE IF scheme = None /\ authority = None /\ ~StartsWith(path, "/")
            /\ ":" \in Range0(UpTo(path, {"/"}))
    THEN Raise("ValueError")
    ELSE Return(geturi(SplitResult(scheme, authority, path, None, None)))

\* the loop of SplitResult.__remove_dot_segments over the segments segs
RECURSIVE DotLoop(_, _)
DotLoop(segs, pseg) ==
    IF segs = <<>> THEN pseg
    ELSE LET s == Head(segs)
         IN  DotLoop(Tail(segs),
                     IF s = <<".">> THEN pseg
                     ELSE IF s # <<".", ".">> THEN Append(pseg, s)
                     ELSE IF Len(pseg) = 1 /\ pseg[1] = <<>> THEN pseg
                     ELSE IF pseg # <<>> /\ pseg[Len(pseg)] # <<".", ".">>
                          THEN SubSeq(pseg, 1, Len(pseg) - 1)
                     ELSE Append(pseg, s))

\* SplitResult.__remove_dot_segments: RFC 3986 5.2.4
remove_dot_segments(path) ==
    LET p1 == DotLoop(Split(path, "/"), <<>>)
        p2 == IF RPartition(path)[3] \in {<<".">>, <<".", ".">>}
              THEN Append(p1, <<>>) ELSE p1
        p3 == IF path # <<>> /\ Len(p2) = 1 /\ p2[1] = <<>>
              THEN <<<<".">>>> \o p2 ELSE p2
    IN  Join(p3, "/")

\* SplitResult.__merge: RFC 3986 5.2.3
merge(base, path) ==
    IF base.authority # None /\ base.path = <<>> THEN <<"/">> \o path
    ELSE LET parts == RPartition(base.path)
         IN  IF parts[2] = <<>> THEN path ELSE parts[1] \o <<"/">> \o path

\* a transform that merges an empty path like any relative path
transform_merge_empty(base, r) ==
    IF r.scheme # None /\ r.scheme # base.scheme
    THEN SplitResult(r.scheme, r.authority, remove_dot_segments(r.path),
                     r.query, r.fragment)
    ELSE IF r.authority # None
    THEN SplitResult(base.scheme, r.authority, remove_dot_segments(r.path),
                     r.query, r.fragment)
    ELSE IF StartsWith(r.path, "/")
    THEN SplitResult(base.scheme, base.authority, remove_dot_segments(r.path),
                     r.query, r.fragment)
    ELSE SplitResult(base.scheme, base.authority,
                     remove_dot_segments(merge(base, r.path)),
                     r.query, r.fragment)

\* SplitResult.transform(ref), not strict: RFC 3986 5.2.2, r being the split ref
transform(base, r) ==
    IF r.scheme # None /\ r.scheme # base.scheme
    THEN SplitResult(r.scheme, r.authority, remove_dot_segments(r.path),
                     r.query, r.fragment)
    ELSE IF r.authority # None
    THEN SplitResult(base.scheme, r.authority, remove_dot_segments(r.path),
                     r.query, r.fragment)
    ELSE IF r.path = <<>>
    THEN SplitResult(base.scheme, base.authority, base.path,
                     IF r.query = None THEN base.query ELSE r.query, r.fragment)
    ELSE IF StartsWith(r.path, "/")
    THEN SplitResult(base.scheme, base.authority, remove_dot_segments(r.path),
                     r.query, r.fragment)
    ELSE SplitResult(base.scheme, base.authority,
                     remove_dot_segments(merge(base, r.path)),
                     r.query, r.fragment)

urijoin(base, ref) == geturi(transform(urisplit(base), urisplit(ref)))
(***************************************************************************)
(* JSON values, and the documents and resources of the model               *)
(***************************************************************************)
JStr(s) == [t |-> "str", v |-> s]

JNum(n) == [t |-> "num", v |-> n]

JObj(m) == [t |-> "obj", v |-> m]

JArr(l) == [t |-> "arr", v |-> l]

\* {"type": "object"}
SchemaType == JObj(<<"t", "y", "p", "e">> :> JStr(<<"o", "b", "j", "e", "c", "t">>))

\* {"a": {"b/c": [42, 1]}}
SchemaNested == JObj(<<"a">> :> JObj(<<"b", "/", "c">> :> JArr(<<JNum(42), JNum(1)>>)))

Schemas == {SchemaType, SchemaNested}

\* {"a": [42]}
SchemaArray == JObj(<<"a">> :> JArr(<<JNum(42)>>))

\* the objects Reference.extract is called with
Objects == {SchemaNested, SchemaArray}

(***************************************************************************)
(* Schema documents that create_widget is given                            *)
(***************************************************************************)
K_id == <<"i", "d">>

K_ref == <<"$", "r", "e", "f">>

K_type == <<"t", "y", "p", "e">>

K_format == <<"f", "o", "r", "m", "a", "t">>

K_enum == <<"e", "n", "u", "m">>

K_items == <<"i", "t", "e", "m", "s">>

K_properties == <<"p", "r", "o", "p", "e", "r", "t", "i", "e", "s">>

\* {"type": name}
Typed(name) == JObj(K_type :> JStr(name))

\* {"$ref": uri}
RefTo(uri) == JObj(K_ref :> JStr(uri))

T_object == <<"o", "b", "j", "e", "c", "t">>

T_string == <<"s", "t", "r", "i", "n", "g">>

T_integer == <<"i", "n", "t", "e", "g", "e", "r">>

T_number == <<"n", "u", "m", "b", "e", "r">>

T_boolean == <<"b", "o", "o", "l", "e", "a", "n">>

T_array == <<"a", "r", "r", "a", "y">>

\* "file:///r"
U_file_r == <<"f", "i", "l", "e", ":", "/", "/", "/", "r">>

\* "file:///e"
U_file_e == <<"f", "i", "l", "e", ":", "/", "/", "/", "e">>

\* "file:///i"
U_file_i == <<"f", "i", "l", "e", ":", "/", "/", "/", "i">>

\* "file:///b"
U_file_b == <<"f", "i", "l", "e", ":", "/", "/", "/", "b">>

\* "file:///c"
U_file_c == <<"f", "i", "l", "e", ":", "/", "/", "/", "c">>

\* "file:///u"
U_file_u == <<"f", "i", "l", "e", ":", "/", "/", "/", "u">>

\* "file:///m", a file that does not exist
U_file_m == <<"f", "i", "l", "e", ":", "/", "/", "/", "m">>

\* "file:///r": {"type": "object", "d": {"type": "integer"},
\*               "properties": {"p": {"$ref": "file:///e"},
\*                              "s": {"id": "file:///e", "$ref": "#/d"},
\*                              "l": {"type": "array"}}}
SchemaExternal ==
    JObj(K_type :> JStr(T_object)
         @@ <<"d">> :> Typed(T_integer)
         @@ K_properties :> JObj(<<"p">> :> RefTo(U_file_e)
                                 @@ <<"s">> :> JObj(K_id :> JStr(U_file_e)
                                                    @@ K_ref :> JStr(<<"#", "/", "d">>))
                                 @@ <<"l">> :> Typed(T_array)))

\* "file:///e": {"type": "object", "d": {"type": "boolean"},
\*               "properties": {"q": {"$ref": "#/d"}}}
SchemaReferred ==
    JObj(K_type :> JStr(T_object)
         @@ <<"d">> :> Typed(T_boolean)
         @@ K_properties :> JObj(<<"q">> :> RefTo(<<"#", "/", "d">>)))

\* "file:///i": {"type": "object", "d": {"type": "integer"},
\*               "k": {"id": "file:///e", "type": "object",
\*                     "properties": {"q": {"$ref": "#/d"}}},
\*               "properties": {"p": {"$ref": "#/k"}}}
SchemaWithId ==
    JObj(K_type :> JStr(T_object)
         @@ <<"d">> :> Typed(T_integer)
         @@ <<"k">> :> JObj(K_id :> JStr(U_file_e)
                            @@ K_type :> JStr(T_object)
                            @@ K_properties :> JObj(<<"q">> :> RefTo(<<"#", "/", "d">>)))
         @@ K_properties :> JObj(<<"p">> :> RefTo(<<"#", "/", "k">>)))

\* "file:///b": {"type": "object",
\*               "properties": {"p": {"$ref": "file:///m"}, "s": {"type": "string"}}}
SchemaBroken ==
    JObj(K_type :> JStr(T_object)
         @@ K_properties :> JObj(<<"p">> :> RefTo(U_file_m) @@ <<"s">> :> Typed(T_string)))

\* "file:///c": {"type": "object", "x": {"$ref": "#/y"}, "y": {"$ref": "#/x"},
\*               "properties": {"a": {"$ref": "#/x"}}}
SchemaCyclic ==
    JObj(K_type :> JStr(T_object)
         @@ <<"x">> :> RefTo(<<"#", "/", "y">>)
         @@ <<"y">> :> RefTo(<<"#", "/", "x">>)
         @@ K_properties :> JObj(<<"a">> :> RefTo(<<"#", "/", "x">>)))

\* "file:///u": {"type": "object", "properties": {"n": {"$ref": "#"}}}
SchemaRecursive ==
    JObj(K_type :> JStr(T_object) @@ K_properties :> JObj(<<"n">> :> RefTo(<<"#">>)))

\* {"type": "array", "items": {"type": "integer"}}
SchemaIntegers == JObj(K_type :> JStr(T_array) @@ K_items :> Typed(T_integer))

\* the files open() finds, by path; any other path raises FileNotFoundError
FileSystem ==
    <<"/", "s">> :> SchemaNested
    @@ <<"/", "r">> :> SchemaExternal
    @@ <<"/", "e">> :> SchemaReferred
    @@ <<"/", "i">> :> SchemaWithId
    @@ <<"/", "b">> :> SchemaBroken
    @@ <<"/", "c">> :> SchemaCyclic
    @@ <<"/", "u">> :> SchemaRecursive

\* {"e": 404}
NotFoundBody == JObj(<<"e">> :> JNum(404))

\* a Response of requests: its status_code and how its json() ends
Response(status_code, json) == [status_code |-> status_code, json |-> json]

\* the responses requests.get() receives, by URI: "http://h/d" is served,
\* "http://h/n" is not found and says so in JSON, "http://h/x" is served a body
\* that is not JSON; for any other URI requests.get() raises ConnectionError
Web ==
    <<"h", "t", "t", "p", ":", "/", "/", "h", "/", "d">> :> Response(200, Return(SchemaType))
    @@ <<"h", "t", "t", "p", ":", "/", "/", "h", "/", "n">> :> Response(404, Return(NotFoundBody))
    @@ <<"h", "t", "t", "p", ":", "/", "/", "h", "/", "x">> :> Response(200, Raise("JSONDecodeError"))

(***************************************************************************)
(* Reference                                                               *)
(***************************************************************************)
\* e.replace('~0', '~').replace('~1', '/')
Unescape_swapped(e) == Replace(Replace(e, "~", "0", "~"), "~", "1", "/")

\* e.replace('~1', '/').replace('~0', '~')
Unescape(e) == Replace(Replace(e, "~", "1", "/"), "~", "0", "~")

\* Reference.__init__: self.elements
ReferenceInit(uri) ==
    LET parts == Split(uri, "/")
    IN  [i \in 1..Len(parts) |-> Unescape(parts[i])]

\* obj.get(elem): None for an absent key
GetItem_get(obj, elem) ==
    IF obj.t = "obj"
    THEN IF elem \in DOMAIN obj.v THEN Return(obj.v[elem]) ELSE Return(JNull)
    ELSE Raise("TypeError")

\* obj[elem] for a str elem
GetItem(obj, elem) ==
    IF obj.t = "obj"
    THEN IF elem \in DOMAIN obj.v THEN Return(obj.v[elem]) ELSE Raise("KeyError")
    ELSE Raise("TypeError")

\* Reference.extract
RECURSIVE extract(_, _)
extract(elements, obj) ==
    IF elements = <<>> THEN Return(obj)
    ELSE LET item == GetItem(obj, Head(elements))
         IN  IF item.kind = "raise" THEN item ELSE extract(Tail(elements), item.val)
(***************************************************************************)
(* State                                                                   *)
(***************************************************************************)
VARIABLES
    document,          \* DocumentLoader.document
    location,          \* DocumentLoader.location
    platform,          \* platform.system()
    debug,             \* __debug__: FALSE when Python runs with -O, which drops asserts
    scheme_to_loader,  \* URILoaderRegistry.scheme_to_loader
    cache,             \* the lru_cache of load_resource_from_loader, oldest first
    contexts,          \* the Context objects made so far, in the order they were made
    loads,             \* history: per loader and location, its load_resource calls
    last,              \* history: the last call, its arguments and its outcome
    opened,            \* history: the paths open() was called with during the last call
    nops,              \* history: the number of calls made
    cache_size,        \* the cache_size given to create_cached_uri_loader_registry
    stack,             \* the _create_widget calls in progress, outermost first
    widgets,           \* the widgets instantiated so far, in the order they were made
    status,            \* create_widget: "running", "returned" or "raised"
    items,             \* JSONArrayWidget: the values of the widgets in widget_stack
    palette            \* JSONStringWidget: the background colour of the line edit

\* the state of the form that create_widget builds
widget_vars == <<stack, widgets, status, items, palette>>

vars == <<document, location, platform, debug, scheme_to_loader, cache, contexts, loads,
          last, opened, nops, cache_size, widget_vars>>

\* the number of calls a behaviour makes
MaxOps == 3

\* the number of Context objects a behaviour makes
MaxContexts == 3

\* the length of the pointers Reference is made from
MaxLen == 3

PointerChars == {"~", "0", "1", "/", "a"}

\* functools.lru_cache(1024)
lru_maxsize == 1024

\* create_cached_uri_loader_registry(cache_size=1024)
default_cache_size == 1024

(***************************************************************************)
(* Resource loaders                                                        *)
(***************************************************************************)
\* HTTPResourceLoader.load_resource: requests.get(uri).json()
HTTPResourceLoader_load_resource(uri) ==
    IF uri \in DOMAIN Web THEN Web[uri].json ELSE Raise("RequestException")

\* FileResourceLoader.load_resource, from "path = result.path" on
OpenPath(path) ==
    IF path \in DOMAIN FileSystem THEN Return(FileSystem[path])
    ELSE Raise("FileNotFoundError")

\* FileResourceLoader.load_resource: the path open() is called with
FilePath(result) == IF platform = "Windows" THEN From(result.path, 1) ELSE result.path

\* a file loader that opens the path of every URI, whatever its authority
FileResourceLoader_run_unchecked(result) ==
    [res |-> OpenPath(FilePath(result)), opened |-> <<FilePath(result)>>]

\* FileResourceLoader.load_resource, result being urisplit(uri): how it ends,
\* and the paths it called open() with
FileResourceLoader_run(result) ==
    IF Truthy(result.authority) THEN [res |-> Raise("ValueError"), opened |-> <<>>]
    ELSE [res |-> OpenPath(FilePath(result)), opened |-> <<FilePath(result)>>]

FileResourceLoader_load(result) == FileResourceLoader_run(result).res

\* FileResourceLoader.load_resource
FileResourceLoader_load_resource(uri) == FileResourceLoader_load(urisplit(uri))

\* a DocumentLoader that serves its document for every location
DocumentLoader_load_any(uri) == Return(document)

\* DocumentLoader.load_resource
DocumentLoader_load_resource(uri) ==
    IF uri # location THEN Raise("ValueError") ELSE Return(document)

\* loader.load_resource(uri), by the class of loader
load_resource(loader, uri) ==
    CASE loader = "http_loader" -> HTTPResourceLoader_load_resource(uri)
      [] loader = "file_loader" -> FileResourceLoader_load_resource(uri)
      [] loader = "document_loader" -> DocumentLoader_load_resource(uri)

(***************************************************************************)
(* URILoaderRegistry                                                       *)
(***************************************************************************)
\* what a call leaves behind: its outcome, the cache, and the calls of
\* load_resource_from_loader it made (called: the loader itself was invoked)
Outcome(res, c, resolved) == [res |-> res, cache |-> c, resolved |-> resolved]

Resolved(loader, uri, called, returned) ==
    <<[loader |-> loader, uri |-> uri, called |-> called, returned |-> returned]>>

\* a cache keyed by the loader alone
CacheIndex_by_loader(self, loader, uri) ==
    {i \in 1..Len(cache) : cache[i].self = self /\ cache[i].loader = loader}

CacheIndex(self, loader, uri) ==
    {i \in 1..Len(cache) :
        cache[i].self = self /\ cache[i].loader = loader /\ cache[i].uri = uri}

Without(c, i) == SubSeq(c, 1, i - 1) \o SubSeq(c, i + 1, Len(c))

\* a cache that stores what a call left, whether it returned or raised
CacheMiss_store_failure(self, loader, uri, r) ==
    Outcome(r,
            Append(IF Len(cache) >= lru_maxsize THEN Tail(cache) ELSE cache,
                   [self |-> self, loader |-> loader, uri |-> uri, doc |-> r.val]),
            Resolved(loader, uri, TRUE, r.kind = "return"))

\* a miss of the lru_cache: the loader was called and ended as r; only a
\* returned value is stored, and the oldest entry goes when the cache is full
CacheMiss(self, loader, uri, r) ==
    Outcome(r,
            IF r.kind = "raise" THEN cache
            ELSE Append(IF Len(cache) >= lru_maxsize THEN Tail(cache) ELSE cache,
                        [self |-> self, loader |-> loader, uri |-> uri, doc |-> r.val]),
            Resolved(loader, uri, TRUE, r.kind = "return"))

\* a hit of the lru_cache at entry i, which becomes the newest
CacheHit(i) ==
    Outcome(Return(cache[i].doc), Append(Without(cache, i), cache[i]),
            Resolved(cache[i].loader, cache[i].uri, FALSE, FALSE))

\* CachedURILoaderRegistry.load_resource_from_loader: the lru_cache, keyed by
\* (self, loader, uri), around URILoaderRegistry.load_resource_from_loader
load_resource_from_loader(self, loader, uri) ==
    IF CacheIndex(self, loader, uri) # {}
    THEN CacheHit(CHOOSE i \in CacheIndex(self, loader, uri) : TRUE)
    ELSE CacheMiss(self, loader, uri, load_resource(loader, uri))

\* a registration that keeps the loader a scheme already has
register_for_scheme_setdefault(registered, scheme, loader) ==
    IF scheme \in DOMAIN registered THEN registered
    ELSE [k \in DOMAIN registered \cup {scheme} |->
             IF k = scheme THEN loader ELSE registered[k]]

\* URILoaderRegistry.register_for_scheme: scheme_to_loader after the call,
\* registered being scheme_to_loader before it
register_for_scheme(registered, scheme, loader) ==
    [k \in DOMAIN registered \cup {scheme} |-> IF k = scheme THEN loader ELSE registered[k]]

\* the paths open() is called with by the calls of load_resource_from_loader
Opened(resolved) ==
    IF resolved # <<>> /\ resolved[1].called /\ resolved[1].loader = "file_loader"
    THEN FileResourceLoader_run(urisplit(resolved[1].uri)).opened
    ELSE <<>>

\* a location that keeps the fragment
Location_with_fragment(result) == Return(geturi(result))

\* the location load_uri asks the loader for
Location(result) == uricompose(result.scheme, result.authority, result.path)

\* URILoaderRegistry.load_uri, from "if result.fragment" on
LoadFragment(result, got) ==
    IF got.res.kind = "raise" THEN got
    ELSE IF Truthy(result.fragment)
    THEN IF debug /\ ~StartsWith(result.fragment, "/")
         THEN Outcome(Raise("AssertionError"), got.cache, got.resolved)
         ELSE Outcome(extract(ReferenceInit(From(result.fragment, 1)), got.res.val),
                      got.cache, got.resolved)
    ELSE got

\* a lookup that falls back to the loader of scheme None
LoadLocation_default(result, loc) ==
    IF loc.kind = "raise" THEN Outcome(loc, cache, <<>>)
    ELSE LoadFragment(result,
                      load_resource_from_loader(
                          "registry",
                          IF result.scheme \in DOMAIN scheme_to_loader
                          THEN scheme_to_loader[result.scheme] ELSE scheme_to_loader[None],
                          loc.val))

\* URILoaderRegistry.load_uri, from the lookup of the loader on
LoadLocation(result, loc) ==
    IF loc.kind = "raise" THEN Outcome(loc, cache, <<>>)
    ELSE IF result.scheme \notin DOMAIN scheme_to_loader
    THEN Outcome(Raise("KeyError"), cache, <<>>)
    ELSE LoadFragment(result,
                      load_resource_from_loader("registry", scheme_to_loader[result.scheme],
                                                loc.val))

\* URILoaderRegistry.load_uri, result being urisplit(uri)
LoadSplit(result) == LoadLocation(result, Location(result))

\* URILoaderRegistry.load_uri
load_uri(uri) == LoadSplit(urisplit(uri))

(***************************************************************************)
(* Context                                                                 *)
(***************************************************************************)
\* Context.__init__
Context(scope_uri, registry) == [scope_uri |-> scope_uri, registry |-> registry]

\* a follow_uri that takes uri as the new scope without joining it
follow_uri_verbatim(scope_uri, uri) == uri

\* Context.follow_uri: the scope_uri of the Context returned
follow_uri(scope_uri, uri) == urijoin(scope_uri, uri)

\* a follow_uri that rescopes its receiver and returns it
Context_follow_uri_in_place(self, uri) ==
    [contexts EXCEPT ![self] = Context(follow_uri(contexts[self].scope_uri, uri),
                                       contexts[self].registry)]

\* Context.follow_uri on the Context self: the Context objects after the call,
\* the one returned being the last
Context_follow_uri(self, uri) ==
    Append(contexts, Context(follow_uri(contexts[self].scope_uri, uri),
                             contexts[self].registry))

\* a construction that joins uri against the scope of the Context self
Context_new_joined(self, uri) ==
    Append(contexts, Context(urijoin(contexts[self].scope_uri, uri),
                             contexts[self].registry))

\* Context(uri, ctx.registry), ctx being the Context self: the Context objects
\* after the call, the one made being the last
Context_new(self, uri) == Append(contexts, Context(uri, contexts[self].registry))

\* the methods class Context defines
ContextMethods == {"__init__", "follow_uri", "dereference", "__repr__"}

\* ctx.name, the attribute lookup on a Context: class Context sets no other
\* attribute than its methods, scope_uri and registry
GetAttr(name) ==
    IF name \in ContextMethods \cup {"scope_uri", "registry"} THEN Return(JStr(name))
    ELSE Raise("AttributeError")

\* Context.dereference
dereference(scope_uri, uri) == load_uri(urijoin(scope_uri, uri))

(***************************************************************************)
(* The strings the calls of the model are made with                        *)
(***************************************************************************)
\* ""
U_empty == <<>>

\* "#"
U_hash == <<"#">>

\* "root"
U_root == <<"r", "o", "o", "t">>

\* "root#"
U_root_hash == <<"r", "o", "o", "t", "#">>

\* "root#/type"
U_root_type == <<"r", "o", "o", "t", "#", "/", "t", "y", "p", "e">>

\* "#/type"
U_hash_type == <<"#", "/", "t", "y", "p", "e">>

\* "#/a/x"
U_hash_a_x == <<"#", "/", "a", "/", "x">>

\* "file:///s"
U_file_s == <<"f", "i", "l", "e", ":", "/", "/", "/", "s">>

\* "file:///s#/a/b~1c/0"
U_file_s_item == <<"f", "i", "l", "e", ":", "/", "/", "/", "s", "#", "/", "a", "/", "b", "~", "1", "c", "/", "0">>

\* "file:///s#/a/x"
U_file_s_a_x == <<"f", "i", "l", "e", ":", "/", "/", "/", "s", "#", "/", "a", "/", "x">>

\* "file:///s#xa"
U_file_s_xa == <<"f", "i", "l", "e", ":", "/", "/", "/", "s", "#", "x", "a">>

\* "file://h/s"
U_file_h_s == <<"f", "i", "l", "e", ":", "/", "/", "h", "/", "s">>

\* "file:///t"
U_file_t == <<"f", "i", "l", "e", ":", "/", "/", "/", "t">>

\* "http://h/n"
U_http_n == <<"h", "t", "t", "p", ":", "/", "/", "h", "/", "n">>

\* "http://h/x"
U_http_x == <<"h", "t", "t", "p", ":", "/", "/", "h", "/", "x">>

\* "http://h/d"
U_http_d == <<"h", "t", "t", "p", ":", "/", "/", "h", "/", "d">>

\* "http://h/d?x"
U_http_d_q == <<"h", "t", "t", "p", ":", "/", "/", "h", "/", "d", "?", "x">>

\* "http://h/e"
U_http_e == <<"h", "t", "t", "p", ":", "/", "/", "h", "/", "e">>

\* "ftp://x"
U_ftp_x == <<"f", "t", "p", ":", "/", "/", "x">>

\* "e"
U_e == <<"e">>

\* "http"
S_http == <<"h", "t", "t", "p">>

\* "https"
S_https == <<"h", "t", "t", "p", "s">>

\* "file"
S_file == <<"f", "i", "l", "e">>

\* "ftp"
S_ftp == <<"f", "t", "p">>

\* the schema_uri arguments of create_widget
SchemaUris == {None, U_root, U_root_hash, U_file_s}

\* the URIs load_uri is called with
Uris == {U_root, U_root_type, U_file_s, U_file_s_item, U_file_s_a_x, U_file_s_xa,
         U_http_d, U_http_d_q, U_http_e, U_ftp_x}

\* the "$ref" values dereference is called with
Refs == {U_hash_type, U_hash_a_x, U_file_s_item}

\* the "id" values follow_uri is called with
Ids == {U_empty, U_file_s, U_e, U_hash_type}

\* the URIs DocumentLoader.load_resource is called with
Locations == {None, U_empty, U_hash, U_root, U_root_hash}

Loaders == {"http_loader", "file_loader", "document_loader"}

\* the URIs FileResourceLoader.load_resource is called with
FileUris == {U_file_s, U_file_t, U_file_h_s}

\* the URIs HTTPResourceLoader.load_resource is called with
HTTPUris == {U_http_d, U_http_n, U_http_x, U_http_e}

\* the schemes register_for_scheme is called with after construction
Schemes == {S_ftp, S_file}

\* the URIs load_uri is called with between registrations
RegisteredUris == {U_file_s, U_file_s_item, U_http_d, U_ftp_x}

(***************************************************************************)
(* Construction: create_widget(name, schema, schema_uri)                   *)
(***************************************************************************)
\* a root scope that is schema_uri even when there is none
RootScope_verbatim(schema_uri) == schema_uri

\* schema_uri or "#"
RootScope(schema_uri) == IF Truthy(schema_uri) THEN schema_uri ELSE U_hash

Call(op, scope, arg, target, out) ==
    [op |-> op, scope |-> scope, arg |-> arg, target |-> target,
     res |-> out.res, resolved |-> out.resolved]

\* _create_widget(name, schema, ctx, parent) as it is entered. History: origin
\* is the location of the document that schema is part of; once a "$ref" was
\* followed, via is the last one, held the origin of the schema that held it,
\* base the scope it was resolved against, ref the URI it was resolved to and
\* seen the URIs that the "$ref"s of this call were resolved to
Frame(name, schema, ctx, origin) ==
    [at |-> "id", name |-> name, schema |-> schema, ctx |-> ctx, origin |-> origin,
     ref |-> None, via |-> None, held |-> None, base |-> None, seen |-> {},
     pending |-> {}]

\* create_widget(name, document, location) on a registry made by
\* create_cached_uri_loader_registry(cache_size)(), up to its last line
Construction(documents, cache_sizes) ==
    /\ \E d \in documents : document = d[1] /\ location = d[2]
    /\ cache_size \in cache_sizes
    /\ stack = <<Frame(<<>>, document, 1, location)>>
    /\ widgets = <<>>
    /\ status = "running"
    /\ items = <<>>
    /\ palette = "default"
    /\ platform \in {"Linux", "Windows"}
    /\ debug \in BOOLEAN
    /\ scheme_to_loader =
           register_for_scheme(
               register_for_scheme(
                   register_for_scheme(
                       register_for_scheme(<<>>, S_http, "http_loader"),
                       S_https, "http_loader"),
                   S_file, "file_loader"),
               None, "document_loader")
    /\ cache = <<>>
    /\ contexts = <<Context(RootScope(location), "registry")>>
    /\ loads = <<>>
    /\ opened = <<>>
    /\ last = Call("create_widget", None, location, RootScope(location),
                   Outcome(Return(JNull), <<>>, <<>>))
    /\ nops = 0

Init == Construction(Schemas \X SchemaUris, {default_cache_size})

(***************************************************************************)
(* Operations                                                              *)
(***************************************************************************)
\* the location a loader was asked for, without any fragment
Stripped(uri) == UpTo(uri, {"#"})

\* the history after a call for target that made the calls resolved: per loader
\* and location, the URIs asked for and the loader's calls and returns
Logged(target, resolved) ==
    IF resolved = <<>> THEN loads
    ELSE [k \in DOMAIN loads \cup {<<resolved[1].loader, Stripped(resolved[1].uri)>>} |->
            LET old == IF k \in DOMAIN loads THEN loads[k]
                       ELSE [asked |-> {}, calls |-> 0, returns |-> 0]
            IN  IF k = <<resolved[1].loader, Stripped(resolved[1].uri)>>
                THEN [asked |-> old.asked \cup {target},
                      calls |-> old.calls + (IF resolved[1].called THEN 1 ELSE 0),
                      returns |-> old.returns + (IF resolved[1].returned THEN 1 ELSE 0)]
                ELSE old]

\* a call op(arg), on the Context of scope scope_uri if any, that ended as out
Called(op, scope_uri, arg, target, out) ==
    /\ nops < MaxOps
    /\ cache' = out.cache
    /\ loads' = Logged(target, out.resolved)
    /\ last' = Call(op, scope_uri, arg, target, out)
    /\ opened' = Opened(out.resolved)
    /\ nops' = nops + 1
    /\ UNCHANGED <<document, location, platform, debug, cache_size, widget_vars,
                   scheme_to_loader, contexts>>

\* registry.load_uri(uri)
LoadUri(uri) == Called("load_uri", None, uri, uri, load_uri(uri))

\* ctx.dereference(ref), ctx being the Context self made before
Dereference(self, ref) ==
    Called("dereference", contexts[self].scope_uri, ref,
           urijoin(contexts[self].scope_uri, ref),
           dereference(contexts[self].scope_uri, ref))

\* ctx.follow_uri(uri), ctx being the Context self made before
FollowUri(self, uri) ==
    /\ nops < MaxOps
    /\ Len(contexts) < MaxContexts
    /\ contexts' = Context_follow_uri(self, uri)
    /\ last' = Call("follow_uri", contexts[self].scope_uri, uri,
                    follow_uri(contexts[self].scope_uri, uri),
                    Outcome(Return(JNull), cache, <<>>))
    /\ opened' = <<>>
    /\ nops' = nops + 1
    /\ UNCHANGED <<document, location, platform, debug, cache_size, widget_vars,
                   scheme_to_loader, cache, loads>>

\* registry.register_for_scheme(scheme, loader)
RegisterForScheme(scheme, loader) ==
    /\ nops < MaxOps
    /\ scheme_to_loader' = register_for_scheme(scheme_to_loader, scheme, loader)
    /\ last' = Call("register_for_scheme", None, scheme, loader,
                    Outcome(Return(JNull), cache, <<>>))
    /\ opened' = <<>>
    /\ nops' = nops + 1
    /\ UNCHANGED <<document, location, platform, debug, cache_size, widget_vars,
                   cache, contexts, loads>>

\* document_loader.load_resource(uri), called directly
LoadResource(uri) ==
    /\ nops < MaxOps
    /\ last' = Call("load_resource", None, uri, uri,
                    Outcome(DocumentLoader_load_resource(uri), cache, <<>>))
    /\ opened' = <<>>
    /\ nops' = nops + 1
    /\ UNCHANGED <<document, location, platform, debug, cache_size, widget_vars,
                   scheme_to_loader, cache, contexts,
                   loads>>

\* Reference(uri), called directly: its elements
NewReference(uri) ==
    /\ last' = Call("Reference", None, uri, uri,
                    Outcome(Return(JArr([i \in 1..Len(ReferenceInit(uri)) |->
                                           JStr(ReferenceInit(uri)[i])])),
                            cache, <<>>))
    /\ opened' = <<>>
    /\ UNCHANGED <<document, location, platform, debug, cache_size, widget_vars,
                   scheme_to_loader, cache, contexts,
                   loads, nops>>

\* Reference(uri).extract(obj), called directly
Extract(uri, obj) ==
    /\ last' = Call("extract", uri, obj, uri,
                    Outcome(extract(ReferenceInit(uri), obj), cache, <<>>))
    /\ opened' = <<>>
    /\ UNCHANGED <<document, location, platform, debug, cache_size, widget_vars,
                   scheme_to_loader, cache, contexts,
                   loads, nops>>

\* file_loader.load_resource(uri), called directly
FileLoadResource(uri) ==
    /\ last' = Call("file_load_resource", None, uri, uri,
                    Outcome(FileResourceLoader_load_resource(uri), cache, <<>>))
    /\ opened' = FileResourceLoader_run(urisplit(uri)).opened
    /\ UNCHANGED <<document, location, platform, debug, cache_size, widget_vars,
                   scheme_to_loader, cache, contexts,
                   loads, nops>>

\* http_loader.load_resource(uri), called directly
HTTPLoadResource(uri) ==
    /\ last' = Call("http_load_resource", None, uri, uri,
                    Outcome(HTTPResourceLoader_load_resource(uri), cache, <<>>))
    /\ opened' = <<>>
    /\ UNCHANGED <<document, location, platform, debug, cache_size, widget_vars,
                   scheme_to_loader, cache, contexts,
                   loads, nops>>

\* Context(uri, ctx.registry), ctx being the Context self made before
NewContext(self, uri) ==
    /\ nops < MaxOps
    /\ Len(contexts) < MaxContexts
    /\ contexts' = Context_new(self, uri)
    /\ last' = Call("Context", contexts[self].scope_uri, uri, uri,
                    Outcome(Return(JNull), cache, <<>>))
    /\ opened' = <<>>
    /\ nops' = nops + 1
    /\ UNCHANGED <<document, location, platform, debug, cache_size, widget_vars,
                   scheme_to_loader, cache, loads>>

\* ctx.rebase(uri), ctx being the Context self made before: the lookup of the
\* attribute ends the call
Rebase(self, uri) ==
    /\ nops < MaxOps
    /\ GetAttr("rebase").kind = "raise"
    /\ last' = Call("rebase", contexts[self].scope_uri, uri, uri,
                    Outcome(GetAttr("rebase"), cache, <<>>))
    /\ opened' = <<>>
    /\ nops' = nops + 1
    /\ UNCHANGED <<document, location, platform, debug, cache_size, widget_vars,
                   scheme_to_loader, cache, contexts,
                   loads>>

\* the calls made on the registry and on the loaders
Next ==
    \/ \E uri \in Uris : LoadUri(uri)
    \/ \E loader \in Loaders : RegisterForScheme(S_ftp, loader)
    \/ \E uri \in Locations : LoadResource(uri)

Spec == Init /\ [][Next]_vars

\* the calls made on the file loader and on the HTTP loader
NextLoaders ==
    \/ \E uri \in FileUris : FileLoadResource(uri)
    \/ \E uri \in HTTPUris : HTTPLoadResource(uri)

SpecLoaders == Init /\ [][NextLoaders]_vars

\* the calls made on a registry whose schemes are registered again
NextRegister ==
    \/ \E uri \in RegisteredUris : LoadUri(uri)
    \/ \E scheme \in Schemes, loader \in Loaders : RegisterForScheme(scheme, loader)

SpecRegister == Init /\ [][NextRegister]_vars

\* the calls made on Context objects while a schema is traversed
NextContext ==
    \/ \E self \in DOMAIN contexts, ref \in Refs : Dereference(self, ref)
    \/ \E self \in DOMAIN contexts, uri \in Ids : FollowUri(self, uri)

SpecContext == Init /\ [][NextContext]_vars

\* the construction of Context objects by a caller
NextConstruct ==
    \/ \E self \in DOMAIN contexts, uri \in Ids : NewContext(self, uri)
    \/ \E self \in DOMAIN contexts, uri \in Ids : Rebase(self, uri)

SpecConstruct == Init /\ [][NextConstruct]_vars

\* the pointers of at most MaxLen characters Reference is made from
Pointers == UNION {[1..n -> PointerChars] : n \in 0..MaxLen}

\* the parsing of pointers, in one configuration of the rest
InitReference ==
    Init /\ document = SchemaNested /\ location = None /\ platform = "Linux" /\ debug

NextReference ==
    \/ \E uri \in Pointers : NewReference(uri)
    \/ \E uri \in Pointers, obj \in Objects : Extract(uri, obj)

SpecReference == InitReference /\ [][NextReference]_vars

(***************************************************************************)
(* Properties                                                              *)
(***************************************************************************)
\* the document the last call got from load_resource_from_loader, if it got one
Loaded == last.resolved # <<>> /\ (last.resolved[1].returned \/ ~last.resolved[1].called)

LoadedDoc == cache[Len(cache)].doc

LastSplit == urisplit(last.target)

S_object == <<"o", "b", "j", "e", "c", "t">>

C2_LoadUriIsLoaderResult ==
    (/\ last.op = "load_uri"
     /\ LastSplit.scheme \in DOMAIN scheme_to_loader
     /\ ~Truthy(LastSplit.fragment))
    => last.res = load_resource(scheme_to_loader[LastSplit.scheme],
                                geturi(SplitResult(LastSplit.scheme, LastSplit.authority,
                                                   LastSplit.path, None, None)))

C2_Witness ==
    last.op = "load_uri" /\ last.arg = U_http_d_q /\ last.res = Return(SchemaType)

\* C3 as stated: the calls of load_uri for one loader and one fragment-stripped
\* location invoke the loader at most once in total.
C3_AtMostOneCall == \A k \in DOMAIN loads : loads[k].calls <= 1

\* C3 amended: for one loader and one fragment-stripped location the loader
\* returns at most once, whatever the fragments asked for, and a call that did
\* not invoke the loader is for a location the loader returned before.
C3_AtMostOneReturn ==
    /\ \A k \in DOMAIN loads : loads[k].returns <= 1
    /\ (last.resolved # <<>> /\ ~last.resolved[1].called)
       => loads[<<last.resolved[1].loader, Stripped(last.resolved[1].uri)>>].returns = 1

C3_Witness ==
    /\ <<"file_loader", U_file_s>> \in DOMAIN loads
    /\ {U_file_s_item, U_file_s_a_x} \subseteq loads[<<"file_loader", U_file_s>>].asked
    /\ loads[<<"file_loader", U_file_s>>].calls = 1
    /\ <<"http_loader", U_http_d>> \in DOMAIN loads
    /\ loads[<<"http_loader", U_http_d>>].calls = 1

\* C4: with the no-scheme loader bound to {"type": "object"} and "root#",
\* load_uri("root#/type") returns "object".
C4_RootType ==
    (/\ document = SchemaType
     /\ location = U_root_hash
     /\ scheme_to_loader[None] = "document_loader"
     /\ last.op = "load_uri"
     /\ last.arg = U_root_type)
    => last.res = Return(JStr(S_object))

\* C5: in the root Context of a document given without a location (scope "#"),
\* dereference("#/type") returns the value at /type of that document, served
\* by the DocumentLoader.
C5_InternalReference ==
    (/\ document = SchemaType
     /\ location = None
     /\ last.op = "dereference"
     /\ last.scope = U_hash
     /\ last.arg = U_hash_type)
    => /\ last.res = Return(JStr(S_object))
       /\ last.resolved # <<>>
       /\ last.resolved[1].loader = "document_loader"

\* C6: load_uri of a URI whose scheme has no registered loader fails with
\* LookupError, invokes no loader and returns nothing.
C6_UnregisteredScheme ==
    (last.op = "load_uri" /\ LastSplit.scheme \notin DOMAIN scheme_to_loader)
    => /\ last.res.kind = "raise"
       /\ IsInstance(last.res.exc, "LookupError")
       /\ last.resolved = <<>>

C6_Witness ==
    /\ last.op = "load_uri"
    /\ last.arg = U_ftp_x
    /\ S_ftp \notin DOMAIN scheme_to_loader
    /\ last.res = Raise("KeyError")

\* the walk of tokens through the mappings of obj meets a mapping without the key
RECURSIVE AbsentKey(_, _)
AbsentKey(obj, tokens) ==
    /\ tokens # <<>>
    /\ obj.t = "obj"
    /\ \/ Head(tokens) \notin DOMAIN obj.v
       \/ AbsentKey(obj.v[Head(tokens)], Tail(tokens))

\* C7: dereference, in the root Context, of an internal reference whose pointer
\* names a key absent from the document, at any depth, fails with LookupError
\* and returns no value.
C7_MissingKeyInRoot ==
    (/\ last.op = "dereference"
     /\ last.scope = RootScope(location)
     /\ urisplit(last.arg) = SplitResult(None, None, <<>>, None, LastSplit.fragment)
     /\ StartsWith(LastSplit.fragment, "/")
     /\ AbsentKey(document, ReferenceInit(From(LastSplit.fragment, 1))))
    => last.res.kind = "raise" /\ IsInstance(last.res.exc, "LookupError")

\* C7 where the target document is loaded: dereference of a reference whose
\* pointer names a key absent from the loaded document, at any depth, fails
\* with LookupError and returns no value.
C7_MissingKey ==
    (/\ last.op = "dereference"
     /\ Loaded
     /\ Truthy(LastSplit.fragment)
     /\ StartsWith(LastSplit.fragment, "/")
     /\ AbsentKey(LoadedDoc, ReferenceInit(From(LastSplit.fragment, 1))))
    => last.res.kind = "raise" /\ IsInstance(last.res.exc, "LookupError")

C7_Witness ==
    /\ last.op = "dereference"
    /\ last.arg = U_hash_a_x
    /\ Loaded
    /\ LoadedDoc = SchemaNested
    /\ last.res = Raise("KeyError")

\* C8: the pointer /a/b~1c/0 extracted from {"a": {"b/c": [42, 1]}} yields 42,
\* the sequence being indexed by the token parsed as an integer.
C8_SequenceIndex ==
    (/\ last.op = "load_uri"
     /\ last.arg = U_file_s_item
     /\ Loaded
     /\ LoadedDoc = SchemaNested)
    => last.res = Return(JNum(42))

\* RFC 6901, section 3: a key is written with "~" as "~0" and "/" as "~1"
RECURSIVE Escape(_)
Escape(key) ==
    IF key = <<>> THEN <<>>
    ELSE (IF Head(key) = "~" THEN <<"~", "0">>
          ELSE IF Head(key) = "/" THEN <<"~", "1">>
          ELSE <<Head(key)>>) \o Escape(Tail(key))

Elements == last.res.val.v

\* C9: token unescaping is the decoding of RFC 6901: "~01" gives "~1", "~1"
\* gives "/", "~0" gives "~", and every escaped key gives the key back.
C9_Unescape ==
    last.op = "Reference" =>
        /\ last.arg = <<"~", "0", "1">> => Elements = <<JStr(<<"~", "1">>)>>
        /\ last.arg = <<"~", "1">> => Elements = <<JStr(<<"/">>)>>
        /\ last.arg = <<"~", "0">> => Elements = <<JStr(<<"~">>)>>
        /\ \A key \in Pointers : last.arg = Escape(key) => Elements = <<JStr(key)>>

C9_Witness ==
    /\ last.op = "Reference"
    /\ last.arg = <<"~", "0", "1">>
    /\ Elements = <<JStr(<<"~", "1">>)>>

\* two scopes that name the same resource: same scheme, authority and path
SameResource(a, b) ==
    /\ urisplit(a).scheme = urisplit(b).scheme
    /\ urisplit(a).authority = urisplit(b).authority
    /\ urisplit(a).path = urisplit(b).path

\* C10: follow_uri("") gives a Context whose scope names the same resource as
\* the receiver's scope and resolves every reference to the same URI.
C10_FollowEmpty ==
    (last.op = "follow_uri" /\ last.arg = U_empty)
    => /\ \E i \in DOMAIN contexts : contexts[i].scope_uri = last.target
       /\ SameResource(last.target, last.scope)
       /\ \A ref \in Refs \cup Ids : urijoin(last.target, ref) = urijoin(last.scope, ref)

C10_Witness ==
    /\ last.op = "follow_uri"
    /\ last.arg = U_empty
    /\ last.scope = U_hash_type
    /\ last.target = U_empty

\* C11: no Context operation mutates a Context: every step leaves every Context
\* made before with its scope_uri and its registry, dereference makes no
\* Context, and follow_uri returns a new Context with the registry of its
\* receiver, so that the Context a sibling subtree is given is not rescoped.
C11_ContextsImmutable ==
    [][/\ \A i \in DOMAIN contexts : i \in DOMAIN contexts' /\ contexts'[i] = contexts[i]
       /\ last'.op = "dereference" => contexts' = contexts
       /\ last'.op = "follow_uri" =>
              /\ Len(contexts') = Len(contexts) + 1
              /\ \E i \in DOMAIN contexts :
                    /\ contexts[i].scope_uri = last'.scope
                    /\ contexts'[Len(contexts')] =
                           Context(urijoin(last'.scope, last'.arg), contexts[i].registry)]_vars

\* two subtrees of the root were rescoped one after the other, by "file:///s"
\* and by "e", each from the Context of the root
C11_Witness ==
    /\ Len(contexts) = 3
    /\ contexts[1].scope_uri = U_hash
    /\ contexts[2].scope_uri = U_file_s
    /\ contexts[3].scope_uri = U_e
    /\ last.op = "follow_uri"
    /\ last.scope = U_hash

FailedLoad(call) ==
    call.resolved # <<>> /\ call.resolved[1].called /\ ~call.resolved[1].returned

\* C13: a load that fails leaves the cache as it was; the next load of the
\* same location with the same loader invokes the loader again; and a load is
\* served from the cache only for a location the loader has returned before.
C13_FailedLoadNotCached ==
    [][/\ FailedLoad(last') => cache' = cache
       /\ (/\ FailedLoad(last)
           /\ last'.resolved # <<>>
           /\ last'.resolved[1].loader = last.resolved[1].loader
           /\ last'.resolved[1].uri = last.resolved[1].uri)
          => last'.resolved[1].called
       /\ (last'.resolved # <<>> /\ ~last'.resolved[1].called)
          => /\ <<last'.resolved[1].loader, last'.resolved[1].uri>> \in DOMAIN loads
             /\ loads[<<last'.resolved[1].loader, last'.resolved[1].uri>>].returns >= 1]_vars

\* "http://h/e" was asked for twice, and the HTTP loader was called and raised
\* both times
C13_Witness ==
    /\ <<"http_loader", U_http_e>> \in DOMAIN loads
    /\ loads[<<"http_loader", U_http_e>>].calls = 2
    /\ loads[<<"http_loader", U_http_e>>].returns = 0
    /\ last.arg = U_http_e
    /\ last.res = Raise("RequestException")
    /\ cache = <<>>

\* C14: load_uri of a URI whose non-empty fragment does not start with "/"
\* fails with the consistency error of the resolver (the assert of load_uri
\* words it as AssertionError) once the resource is loaded, and returns
\* neither the document nor a value extracted from it.
C14_MalformedFragment ==
    (/\ last.op = "load_uri"
     /\ Loaded
     /\ Truthy(LastSplit.fragment)
     /\ ~StartsWith(LastSplit.fragment, "/"))
    => /\ last.res.kind = "raise"
       /\ last.res.exc \in {"ConsistencyError", "AssertionError"}

DecimalDigits == <<"0", "1", "2", "3", "4", "5", "6", "7", "8", "9">>

\* RFC 6901, section 4: an array index is "0" or digits without a leading "0"
IsIndex(token) ==
    /\ token # <<>>
    /\ \A i \in 1..Len(token) : token[i] \in Range0(DecimalDigits)
    /\ token[1] = "0" => Len(token) = 1

RECURSIVE IndexValue(_)
IndexValue(token) ==
    IF token = <<>> THEN 0
    ELSE 10 * IndexValue(SubSeq(token, 1, Len(token) - 1))
         + (CHOOSE d \in 0..9 : DecimalDigits[d + 1] = token[Len(token)])

\* what the walk of tokens through obj meets: mappings are indexed by the
\* token as a key, sequences by the token as a non-negative integer
RECURSIVE Pointed(_, _)
Pointed(obj, tokens) ==
    IF tokens = <<>> THEN "value"
    ELSE IF obj.t = "obj"
    THEN IF Head(tokens) \in DOMAIN obj.v THEN Pointed(obj.v[Head(tokens)], Tail(tokens))
         ELSE "absent"
    ELSE IF obj.t = "arr"
    THEN IF ~IsIndex(Head(tokens)) THEN "invalid"
         ELSE IF IndexValue(Head(tokens)) >= Len(obj.v) THEN "absent"
         ELSE Pointed(obj.v[IndexValue(Head(tokens)) + 1], Tail(tokens))
    ELSE "scalar"

\* C15: extract fails with the invalid-pointer error (the code has none of its
\* own: indexing a list by a string is a TypeError) when a token that indexes
\* a sequence is not a valid non-negative integer, and fails with LookupError
\* when a well-formed key or index is absent.
C15_PointerErrors ==
    last.op = "extract" =>
        /\ Pointed(last.arg, ReferenceInit(last.scope)) = "invalid"
           => /\ last.res.kind = "raise"
              /\ last.res.exc \in {"InvalidPointerError", "TypeError"}
        /\ Pointed(last.arg, ReferenceInit(last.scope)) = "absent"
           => /\ last.res.kind = "raise"
              /\ IsInstance(last.res.exc, "LookupError")

\* C16: register_for_scheme is last-write-wins: it binds its scheme to its
\* loader and leaves every other binding, no other call changes a binding, and
\* every load_uri is resolved by the loader its scheme is bound to at the time
\* of the call and returns what that loader produces, also for a location that
\* is cached for the loader the scheme was bound to before.
C16_LastWriteWins ==
    [][/\ last'.op = "register_for_scheme" =>
              /\ DOMAIN scheme_to_loader' = DOMAIN scheme_to_loader \cup {last'.arg}
              /\ scheme_to_loader'[last'.arg] = last'.target
              /\ \A k \in DOMAIN scheme_to_loader \ {last'.arg} :
                    scheme_to_loader'[k] = scheme_to_loader[k]
       /\ last'.op # "register_for_scheme" => scheme_to_loader' = scheme_to_loader
       /\ (last'.op = "load_uri" /\ last'.resolved # <<>>) =>
              /\ last'.resolved[1].loader = scheme_to_loader[urisplit(last'.arg).scheme]
              /\ ~Truthy(urisplit(last'.arg).fragment) =>
                    last'.res = load_resource(scheme_to_loader[urisplit(last'.arg).scheme],
                                              last'.resolved[1].uri)]_vars

\* "file:///s" was loaded and cached through the FileResourceLoader, "file" was
\* then registered for the DocumentLoader, and load_uri("file:///s") returned the
\* document of the DocumentLoader
C16_Witness ==
    /\ last.op = "load_uri"
    /\ last.arg = U_file_s
    /\ scheme_to_loader[S_file] = "document_loader"
    /\ document = SchemaType
    /\ last.res = Return(SchemaType)
    /\ \E i \in DOMAIN cache :
          cache[i] = [self |-> "registry", loader |-> "file_loader", uri |-> U_file_s,
                      doc |-> SchemaNested]

\* RFC 3986, section 4.3: an absolute URI has a scheme
IsAbsolute(uri) == urisplit(uri).scheme # None

\* C17 as stated: in every Context reached from a root Context, whose scope is
\* an absolute URI or "#", by follow_uri calls with any "id" values, scope_uri
\* is an absolute URI or "#".
C17_ScopeAbsoluteOrRoot ==
    (IsAbsolute(contexts[1].scope_uri) \/ contexts[1].scope_uri = U_hash)
    => \A i \in DOMAIN contexts :
          IsAbsolute(contexts[i].scope_uri) \/ contexts[i].scope_uri = U_hash

\* C17 amended: follow_uri on a Context whose scope is an absolute URI gives a
\* Context whose scope is an absolute URI, so every Context reached from a root
\* Context of absolute scope has an absolute scope.
C17_AbsoluteStaysAbsolute ==
    /\ (last.op = "follow_uri" /\ IsAbsolute(last.scope)) => IsAbsolute(last.target)
    /\ IsAbsolute(contexts[1].scope_uri)
       => \A i \in DOMAIN contexts : IsAbsolute(contexts[i].scope_uri)

\* the relative "id" "e" was followed from the root scope "file:///s"
C17_Witness ==
    /\ contexts[1].scope_uri = U_file_s
    /\ last.op = "follow_uri"
    /\ last.scope = U_file_s
    /\ last.arg = U_e
    /\ contexts[Len(contexts)].scope_uri = <<"f", "i", "l", "e", ":", "/", "/", "/", "e">>

C19_HTTPStatus ==
    last.op = "http_load_resource" =>
        /\ last.res.kind = "return"
           => /\ last.arg \in DOMAIN Web
              /\ Web[last.arg].status_code \in 200..299
              /\ Web[last.arg].json = last.res
        /\ (last.arg \in DOMAIN Web /\ Web[last.arg].status_code \notin 200..299)
           => last.res.kind = "raise"

\* C20 as stated: ctx.rebase(uri) returns a new Context whose scope is uri
\* verbatim, not joined against the scope of ctx, and whose registry is the
\* registry of ctx.
C20_Rebase ==
    last.op = "rebase" =>
        /\ last.res.kind = "return"
        /\ Len(contexts) >= 2
        /\ contexts[Len(contexts)] = [scope_uri |-> last.arg, registry |-> "registry"]

\* C20 amended: Context(uri, ctx.registry), the constructor of Context, makes a
\* new Context whose scope is uri verbatim, not joined against the scope of
\* ctx, and whose registry is the registry of ctx.
C20_ContextVerbatim ==
    last.op = "Context" =>
        /\ last.res.kind = "return"
        /\ Len(contexts) >= 2
        /\ contexts[Len(contexts)] = [scope_uri |-> last.arg, registry |-> "registry"]

\* a Context of scope "e" was made from the root Context of scope "file:///s"
C20_Witness ==
    /\ last.op = "Context"
    /\ last.scope = U_file_s
    /\ last.arg = U_e
    /\ contexts = <<[scope_uri |-> U_file_s, registry |-> "registry"],
                    [scope_uri |-> U_e, registry |-> "registry"]>>

(***************************************************************************)
(* The capacity of the cache                                               *)
(***************************************************************************)
\* the cache_size arguments create_cached_uri_loader_registry is called with
CacheSizes == {1, 2, default_cache_size}

\* the URIs load_uri is called with on a registry of a given cache size
CacheUris == {U_file_s, U_http_d, U_http_d_q, U_http_n}

InitCache == Construction(Schemas \X SchemaUris, CacheSizes)

NextCache == \E uri \in CacheUris : LoadUri(uri)

SpecCache == InitCache /\ [][NextCache]_vars

\* C21: the cache of a registry made by
\* create_cached_uri_loader_registry(cache_size=N) never holds more than N
\* documents.
C21_Capacity == Len(cache) <= cache_size

(***************************************************************************)
(* Two instances of one CachedURILoaderRegistry class                      *)
(***************************************************************************)
\* registry_class() twice, for one registry_class
Registries == {"registry", "registry_2"}

\* the lru_cache that self.load_resource_from_loader goes through: the
\* decorated function is an attribute of the class, one for all its instances
CacheOf(self) == cache

\* the URIs load_resource_from_loader is called with
SharedUris == {U_file_s, U_http_d, U_http_n}

\* self.load_resource_from_loader(loader, uri)
LoadFromLoader(self, loader, uri) ==
    Called("load_resource_from_loader", None, uri, uri,
           load_resource_from_loader(self, loader, uri))

NextShared ==
    \E self \in Registries, loader \in {"http_loader", "file_loader"}, uri \in SharedUris :
        LoadFromLoader(self, loader, uri)

SpecShared == Init /\ [][NextShared]_vars

\* C22: each registry instance owns its own cache: the cache that the loads of
\* one instance go through holds no entry cached through another instance, so
\* a load through one never fills or evicts an entry of the other.
C22_OwnCache ==
    \A self \in Registries :
        \A i \in 1..Len(CacheOf(self)) : CacheOf(self)[i].self = self

(***************************************************************************)
(* Schema traversal: _create_widget and JSONObjectWidget.__init__          *)
(***************************************************************************)
\* the depth of _create_widget calls at which Python raises RecursionError
MaxDepth == 3

\* key in schema, for a dict
Has(schema, key) == schema.t = "obj" /\ key \in DOMAIN schema.v

\* schema.get(key)
Get(schema, key) == IF Has(schema, key) THEN schema.v[key] ELSE JNull

F_color == <<"c", "o", "l", "o", "r">>

F_date_time == <<"d", "a", "t", "e", "-", "t", "i", "m", "e">>

\* supported_widgets, in order
supported_widgets ==
    <<"JSONObjectWidget", "JSONEnumWidget", "JSONIntegerWidget", "JSONNumberWidget",
      "JSONBooleanWidget", "JSONArrayWidget", "JSONDateTimeStringWidget",
      "JSONColorStringWidget", "JSONStringWidget">>

\* c.supports_schema(schema)
supports_schema(c, schema) ==
    CASE c = "JSONObjectWidget" -> Get(schema, K_type) = JStr(T_object)
      [] c = "JSONEnumWidget" -> Has(schema, K_enum)
      [] c = "JSONIntegerWidget" -> Get(schema, K_type) = JStr(T_integer)
      [] c = "JSONNumberWidget" -> Get(schema, K_type) = JStr(T_number)
      [] c = "JSONBooleanWidget" -> Get(schema, K_type) = JStr(T_boolean)
      [] c = "JSONArrayWidget" -> Get(schema, K_type) = JStr(T_array)
      [] c = "JSONDateTimeStringWidget" ->
             Get(schema, K_type) = JStr(T_string) /\ Get(schema, K_format) = JStr(F_date_time)
      [] c = "JSONColorStringWidget" ->
             Get(schema, K_type) = JStr(T_string) /\ Get(schema, K_format) = JStr(F_color)
      [] c = "JSONStringWidget" -> Get(schema, K_type) = JStr(T_string)
      [] OTHER -> TRUE

\* next((c for c in supported_widgets if c.supports_schema(schema)),
\*      UnsupportedSchemaWidget)
widget_class(schema) ==
    IF \E i \in DOMAIN supported_widgets : supports_schema(supported_widgets[i], schema)
    THEN supported_widgets[Min({i \in DOMAIN supported_widgets :
                                    supports_schema(supported_widgets[i], schema)})]
    ELSE "UnsupportedSchemaWidget"

\* the class of the widget that try: widget_class(...) except
\* UnsupportedSchemaError: leaves; JSONArrayWidget raises it without "items"
Instantiated(c, schema) ==
    IF c = "JSONArrayWidget" /\ ~Has(schema, K_items) THEN "UnsupportedSchemaWidget" ELSE c

\* the widget made for the call frame
Widget(frame, c) ==
    [class |-> c, name |-> frame.name, schema |-> frame.schema, ctx |-> frame.ctx,
     origin |-> frame.origin, ref |-> frame.ref, via |-> frame.via, held |-> frame.held,
     base |-> frame.base]

\* the innermost _create_widget call
Top == stack[Len(stack)]

\* an exception that nothing catches leaves create_widget
Propagate ==
    /\ status' = "raised"
    /\ stack' = <<>>

\* the innermost _create_widget call returns its widget
ReturnWidget ==
    /\ stack' = SubSeq(stack, 1, Len(stack) - 1)
    /\ status' = IF Len(stack) = 1 THEN "returned" ELSE status

\* _create_widget, lines 551-552: if "id" in schema: ctx = ctx.follow_uri(schema['id'])
FollowId ==
    /\ status = "running"
    /\ stack # <<>>
    /\ Top.at = "id"
    /\ IF Has(Top.schema, K_id)
       THEN /\ contexts' = Context_follow_uri(Top.ctx, Top.schema.v[K_id].v)
            /\ stack' = [stack EXCEPT ![Len(stack)].at = "ref",
                                      ![Len(stack)].ctx = Len(contexts) + 1]
       ELSE /\ stack' = [stack EXCEPT ![Len(stack)].at = "ref"]
            /\ UNCHANGED contexts
    /\ UNCHANGED <<document, location, platform, debug, scheme_to_loader, cache, loads,
                   last, opened, nops, cache_size, widgets, status, items, palette>>

\* schema = ctx.dereference(schema['$ref']) ended as out, target being the URI
\* it resolved the "$ref" to
Dereferenced(scope_uri, ref, target, out) ==
    /\ cache' = out.cache
    /\ loads' = Logged(target, out.resolved)
    /\ last' = Call("dereference", scope_uri, ref, target, out)
    /\ opened' = Opened(out.resolved)
    /\ IF out.res.kind = "raise"
       THEN Propagate
       ELSE /\ stack' = [stack EXCEPT ![Len(stack)].schema = out.res.val,
                                      ![Len(stack)].ref = target,
                                      ![Len(stack)].via = ref,
                                      ![Len(stack)].held = Top.origin,
                                      ![Len(stack)].base = scope_uri,
                                      ![Len(stack)].seen = @ \cup {target},
                                      ![Len(stack)].origin = Stripped(target)]
            /\ UNCHANGED status
    /\ UNCHANGED <<document, location, platform, debug, scheme_to_loader, contexts, nops,
                   cache_size, widgets, items, palette>>

\* _create_widget, lines 554-555: one turn of while "$ref" in schema
FollowRef ==
    /\ status = "running"
    /\ stack # <<>>
    /\ Top.at = "ref"
    /\ Has(Top.schema, K_ref)
    /\ Dereferenced(contexts[Top.ctx].scope_uri, Top.schema.v[K_ref].v,
                    urijoin(contexts[Top.ctx].scope_uri, Top.schema.v[K_ref].v),
                    dereference(contexts[Top.ctx].scope_uri, Top.schema.v[K_ref].v))

\* _create_widget, lines 557-567: the widget of class c is made; a
\* JSONObjectWidget with "properties" goes on to make the widgets of these
Instantiate(c) ==
    /\ widgets' = Append(widgets, Widget(Top, c))
    /\ IF c = "JSONObjectWidget" /\ Has(Top.schema, K_properties)
       THEN /\ stack' = [stack EXCEPT ![Len(stack)].at = "properties",
                                      ![Len(stack)].pending =
                                          DOMAIN Top.schema.v[K_properties].v]
            /\ UNCHANGED status
       ELSE ReturnWidget
    /\ UNCHANGED <<document, location, platform, debug, scheme_to_loader, cache, contexts,
                   loads, last, opened, nops, cache_size, items, palette>>

\* _create_widget, from line 557 on, once no "$ref" is left in schema
CreateWidget ==
    /\ status = "running"
    /\ stack # <<>>
    /\ Top.at = "ref"
    /\ ~Has(Top.schema, K_ref)
    /\ Instantiate(Instantiated(widget_class(Top.schema), Top.schema))

\* JSONObjectWidget.__init__, lines 157-158: widget = _create_widget(k, v, ctx, self)
\* for a property k not yet reached; Python raises RecursionError at its limit
CreateProperty(k) ==
    /\ status = "running"
    /\ stack # <<>>
    /\ Top.at = "properties"
    /\ k \in Top.pending
    /\ IF Len(stack) >= MaxDepth
       THEN /\ Propagate
            /\ last' = Call("_create_widget", contexts[Top.ctx].scope_uri, k, None,
                            Outcome(Raise("RecursionError"), cache, <<>>))
       ELSE /\ stack' = Append([stack EXCEPT ![Len(stack)].pending = @ \ {k}],
                               Frame(k, Top.schema.v[K_properties].v[k], Top.ctx,
                                     Top.origin))
            /\ UNCHANGED <<status, last>>
    /\ UNCHANGED <<document, location, platform, debug, scheme_to_loader, cache, contexts,
                   loads, opened, nops, cache_size, widgets, items, palette>>

\* JSONObjectWidget.__init__ ends after the last property, then
\* _create_widget returns the widget
FinishObject ==
    /\ status = "running"
    /\ stack # <<>>
    /\ Top.at = "properties"
    /\ Top.pending = {}
    /\ ReturnWidget
    /\ UNCHANGED <<document, location, platform, debug, scheme_to_loader, cache, contexts,
                   loads, last, opened, nops, cache_size, widgets, items, palette>>

\* the property names of the schema documents
PropertyNames == {<<"p">>, <<"s">>, <<"l">>, <<"q">>, <<"a">>, <<"n">>}

\* the schema documents create_widget is given, each with its location
TraverseDocuments ==
    {<<SchemaExternal, U_file_r>>, <<SchemaWithId, U_file_i>>, <<SchemaBroken, U_file_b>>,
     <<SchemaCyclic, U_file_c>>, <<SchemaRecursive, U_file_u>>}

\* the documents are files of a POSIX file system
InitTraverse == Construction(TraverseDocuments, {default_cache_size}) /\ platform = "Linux"

NextTraverse ==
    \/ FollowId
    \/ FollowRef
    \/ CreateWidget
    \/ \E k \in PropertyNames : CreateProperty(k)
    \/ FinishObject

SpecTraverse == InitTraverse /\ [][NextTraverse]_vars

(***************************************************************************)
(* Properties of the traversal                                             *)
(***************************************************************************)
\* C23: when a "$ref" resolved to a schema fragment that carries its own "id",
\* the Context given to the widget of that fragment, which is the one its
\* descendants are made with, is follow_uri(pre-dereference context, that id).
C23_IdOfResolved ==
    \A i \in DOMAIN widgets :
        (widgets[i].ref # None /\ Has(widgets[i].schema, K_id))
        => contexts[widgets[i].ctx].scope_uri
               = follow_uri(widgets[i].base, widgets[i].schema.v[K_id].v)

\* C24: a "$ref" that fails to resolve while the widget of one property is
\* built never aborts the whole form: create_widget does not end with the
\* exception of the failed dereference.
C24_FailedRefKeepsForm ==
    (last.op = "dereference" /\ last.res.kind = "raise") => status # "raised"

\* C25: _create_widget terminates for every finite schema document: the loop
\* that follows "$ref"s ends, so it never comes to a "$ref" that resolves to a
\* URI it has followed before (the documents do not change, so from there on
\* it would repeat itself for ever), and the recursion into properties ends, so
\* it never runs into the recursion limit of Python.
C25_Terminates ==
    /\ \A i \in DOMAIN stack :
           (stack[i].at = "ref" /\ Has(stack[i].schema, K_ref))
           => urijoin(contexts[stack[i].ctx].scope_uri, stack[i].schema.v[K_ref].v)
                  \notin stack[i].seen
    /\ last.res # Raise("RecursionError")

\* C26: when a "$ref" led into a document at another location than the scope
\* (no "id" having moved the scope), a "$ref" nested in the schema loaded from
\* there is resolved against the location of the document it was loaded from.
C26_NestedRefBase ==
    \A i \in DOMAIN widgets :
        (/\ widgets[i].ref # None
         /\ widgets[i].ctx = 1
         /\ widgets[i].held # Stripped(contexts[1].scope_uri))
        => widgets[i].ref = urijoin(widgets[i].held, widgets[i].via)

(***************************************************************************)
(* Validators of JSONStringWidget                                          *)
(***************************************************************************)
\* ValidationFormatter.VALID_COLOUR
VALID_COLOUR == <<"#", "c", "4", "d", "f", "9", "b">>

\* ValidationFormatter.INVALID_COLOUR
INVALID_COLOUR == <<"#", "f", "6", "9", "8", "9", "d">>

\* the "pattern" values of the string schemas: literal characters and ".",
\* which stands for any character
Patterns == {<<>>, <<"a">>, <<".">>, <<"a", "b">>, <<"a", ".">>, <<".", "b">>}

\* the texts typed into the line edit
Texts == {<<>>, <<"a">>, <<"b">>, <<"a", "a">>, <<"a", "b">>, <<"b", "a">>, <<"b", "b">>}

\* re.compile(pattern).match(text): the text matched at the start of text, or
\* None
re_match(pattern, text) ==
    IF /\ Len(text) >= Len(pattern)
       /\ \A i \in 1..Len(pattern) : pattern[i] = "." \/ pattern[i] = text[i]
    THEN SubSeq(text, 1, Len(pattern))
    ELSE None

\* RegexValidator(pattern).__call__(text)
RegexValidator_call(pattern, text) ==
    IF re_match(pattern, text) # None THEN Raise("ValidationError") ELSE Return(JNull)

\* ValidationFormatter.__call__(value) with the one validator
\* RegexValidator(pattern): the colour the widget is given
ValidationFormatter_call(pattern, value) ==
    IF IsInstance(RegexValidator_call(pattern, value).exc, "ValidationError")
    THEN INVALID_COLOUR ELSE VALID_COLOUR

\* JSONStringWidget._validate_text(text), the schema of the widget having
\* "pattern": pattern
ValidateText(pattern, text) ==
    /\ nops < MaxOps
    /\ palette' = ValidationFormatter_call(pattern, text)
    /\ last' = Call("RegexValidator", None, text, pattern,
                    Outcome(RegexValidator_call(pattern, text), cache, <<>>))
    /\ nops' = nops + 1
    /\ UNCHANGED <<document, location, platform, debug, scheme_to_loader, cache, contexts,
                   loads, opened, cache_size, stack, widgets, status, items>>

NextValidate == \E pattern \in Patterns, text \in Texts : ValidateText(pattern, text)

SpecValidate == Init /\ [][NextValidate]_vars

\* the text conforms to the pattern, in the sense RegexValidator itself tests:
\* the pattern matches at the start of the text
Conforms(pattern, text) == re_match(pattern, text) # None

\* C27: RegexValidator(pattern) raises ValidationError for a text exactly when
\* the text does not conform to the pattern, so the string widget is shown as
\* invalid only for text that does not match.
C27_RegexValidator ==
    last.op = "RegexValidator"
    => /\ last.res = Raise("ValidationError") <=> ~Conforms(last.target, last.arg)
       /\ palette = INVALID_COLOUR <=> ~Conforms(last.target, last.arg)

(***************************************************************************)
(* JSONArrayWidget                                                         *)
(***************************************************************************)
\* the lists load_json_object is called with
Data == {<<>>, <<1>>, <<2>>, <<1, 2>>, <<2, 1>>}

\* the form is an array widget: create_widget returned a JSONArrayWidget
IsArrayWidget ==
    /\ status = "returned"
    /\ widgets[1].class = "JSONArrayWidget"

\* JSONArrayWidget.dump_json_object: the values of the widgets in widget_stack
dump_json_object == items

\* JSONArrayWidget.add_item(data): the widget of a new item is made for the
\* integer schema, a spin box that starts at 0, and loads data if there is any
add_item(stacked, data) == Append(stacked, IF data # None THEN data ELSE 0)

\* JSONArrayWidget.load_json_object(data): the i-th widget loads the i-th
\* datum, add_item(datum) is called where there is no widget yet
load_json_object(stacked, data) ==
    [i \in 1..Max({Len(stacked), Len(data)}) |->
        IF i <= Len(data) THEN data[i] ELSE stacked[i]]

\* JSONArrayWidget.remove_item: the last item goes, if there is one
remove_item(stacked) ==
    IF Len(stacked) - 1 < 0 THEN stacked ELSE SubSeq(stacked, 1, Len(stacked) - 1)

\* a call op(arg) on the array widget that leaves the items stacked
ArrayCalled(op, arg, stacked) ==
    /\ nops < MaxOps
    /\ IsArrayWidget
    /\ items' = stacked
    /\ last' = Call(op, None, arg, None, Outcome(Return(JNull), cache, <<>>))
    /\ nops' = nops + 1
    /\ UNCHANGED <<document, location, platform, debug, scheme_to_loader, cache, contexts,
                   loads, opened, cache_size, stack, widgets, status, palette>>

\* click_add: self.add_item()
AddItem == ArrayCalled("add_item", None, add_item(items, None))

\* click_remove: self.remove_item()
RemoveItem == ArrayCalled("remove_item", None, remove_item(items))

\* self.load_json_object(data)
LoadJsonObject(data) == ArrayCalled("load_json_object", data, load_json_object(items, data))

InitArray == Construction({<<SchemaIntegers, None>>}, {default_cache_size})

NextArray ==
    \/ FollowId
    \/ CreateWidget
    \/ AddItem
    \/ RemoveItem
    \/ \E data \in Data : LoadJsonObject(data)

SpecArray == InitArray /\ [][NextArray]_vars

\* C28: load_json_object(data) followed by dump_json_object returns a list with
\* exactly len(data) elements, one per element of data in order.
C28_LoadThenDump == last.op = "load_json_object" => dump_json_object = last.arg
====
